---- MODULE Spec2Model ----
(***************************************************************************)
(* A model of filmklapper.py: the two-stage crawl pipeline (listing        *)
(* workers, detail workers, coordinator), the IMDB rating resolver, the    *)
(* Pathe date normalizer and the detail-page field extractors.             *)
(*                                                                         *)
(* Conventions.  A Python optional is a tuple: None is <<>> and a value v  *)
(* is <<v>>.  A piece of page text is a sequence of tokens, each a         *)
(* non-empty string that is a run of whitespace, a punctuation mark or a   *)
(* word; the empty sequence is the empty string.  IMDB ratings are kept    *)
(* in tenths (8.1 is 81).  TLC keeps strings in ASCII, so the e-acute of   *)
(* the site's texts (Pathe, Amelie) is written e.                          *)
(***************************************************************************)
EXTENDS Integers, Sequences, FiniteSets, TLC

VARIABLES
    pages_queue,      \* queue.Queue(): [items, unfinished_tasks]
    movies_queue,     \* queue.Queue(): [items, unfinished_tasks]
    result_list,      \* the shared result list
    main,             \* the coordinator (__main__): [pc, i]
    page_threads,     \* listing workers: [pc, url, movies_list]
    movie_threads,    \* detail workers: [pc, url, special, imdb_id, imdb_rating]
    calls,            \* calls of the rating resolver, followed request by request
    TODAY,            \* datetime.date.today() when the module was loaded
    clock,            \* the time of day datetime.datetime.now() gives
    day_name,         \* the day label given to normalize_date
    showtime_date,    \* what normalize_date made of it
    lh_movie_doc,     \* the detail page given to a field extractor
    extracted         \* the extractor called on it and what it gave

pipeline_vars == <<pages_queue, movies_queue, result_list, main, page_threads, movie_threads>>

date_vars == <<TODAY, clock, day_name, showtime_date>>

extract_vars == <<lh_movie_doc, extracted>>

vars == <<pipeline_vars, calls, date_vars, extract_vars>>

----------------------------------------------------------------------------
(* Bounds of the model. *)

NumPages == 2
NumPageThreads == 2
NumMovieThreads == 2

\* the current dates tried are those up to DaySpan days after each base date
DaySpan == 6

----------------------------------------------------------------------------
(* Python values. *)

None == <<>>
Some(v) == <<v>>

\* `if not url`, `if special_string`: None and the empty string are falsy
Falsy(opt) == opt = None \/ opt = Some("")

----------------------------------------------------------------------------
(* Page text. *)

Whitespace == {" ", "\n"}

RECURSIVE Str(_)
Str(text) == IF text = <<>> THEN "" ELSE Head(text) \o Str(Tail(text))

\* ''.join(s.split())
JoinSplit(text) == SelectSeq(text, LAMBDA t : t \notin Whitespace)

\* s.strip()
RECURSIVE Strip(_)
Strip(text) ==
    IF text = <<>> THEN text
    ELSE IF Head(text) \in Whitespace THEN Strip(Tail(text))
    ELSE IF text[Len(text)] \in Whitespace THEN Strip(SubSeq(text, 1, Len(text) - 1))
    ELSE text

\* s.split(sep): the list of the parts between the separators
RECURSIVE Split(_, _)
Split(text, sep) ==
    IF \A i \in 1..Len(text) : text[i] # sep THEN <<text>>
    ELSE LET i == CHOOSE k \in 1..Len(text) :
                      text[k] = sep /\ \A j \in 1..(k - 1) : text[j] # sep
         IN  <<SubSeq(text, 1, i - 1)>> \o Split(SubSeq(text, i + 1, Len(text)), sep)

----------------------------------------------------------------------------
(* Program constants. *)

SKIP_SPECIAL == {"PatheOpera", "PatheArt", "PatheBallet", "PatheOperaEncore", "PatheTheatre"}

\* the availability labels a listing worker lets through (line 466)
ALLOWED_STATUS == {"Tijden en tickets", "Verwacht"}

\* the deny-listed entry (line 470)
SNEAK_PREVIEW == "/film/845/sneak-preview"

PATHE == "http://www.pathe.nl"

\* `imdb_rating > 8`, in tenths
RATING_THRESHOLD == 8 * 10

----------------------------------------------------------------------------
(* The sites the run talks to. *)

\* a detail page as the extractors' XPath queries see it: a string query gives
\* the text of the element (empty when the element is absent), a node-set
\* query gives a list (empty when absent)
EmptyDoc ==
    [special |-> <<>>, h1 |-> <<>>, page_title |-> <<>>, release_date |-> <<>>,
     genres |-> <<>>, duration |-> <<>>, language |-> <<>>, kijkwijzer |-> <<>>,
     technologies |-> <<>>, rating |-> <<>>, slider |-> <<>>]

FilmHrefs == {"/film/1/carmen", "/film/2/amelie", "/film/3/senna", SNEAK_PREVIEW}

\* the detail page behind a detail URL
MoviePage(url) ==
    CASE url = PATHE \o "/film/1/carmen" ->
             [EmptyDoc EXCEPT !.special = <<"Special", ":", " ", "Pathe", "Opera">>,
                              !.h1 = <<"Carmen">>]
      [] url = PATHE \o "/film/2/amelie" ->
             [EmptyDoc EXCEPT !.page_title = <<"Amelie", " ", "(", "French", ")">>]
      [] url = PATHE \o "/film/3/senna" ->
             [EmptyDoc EXCEPT !.special = <<"Special", ":", "\n", "PatheDOCS">>,
                              !.h1 = <<"Senna">>]
      [] OTHER -> [EmptyDoc EXCEPT !.h1 = <<"Sneak", " ", "Preview">>]

\* one poster of a listing page: the texts of its button span and the hrefs
\* of its overlay link, as the two XPath queries return them
Poster(label, href) == [labels |-> <<label>>, hrefs |-> <<href>>]

\* the listing pages the site may serve
Listings ==
    { <<>>,
      <<Poster("Verwacht", "/film/2/amelie"), Poster("Uitverkocht", "/film/1/carmen")>>,
      <<Poster("Tijden en tickets", SNEAK_PREVIEW), Poster("Tijden en tickets", "/film/1/carmen")>>,
      <<Poster("Verwacht", "/film/3/senna")>>,
      <<[labels |-> <<>>, hrefs |-> <<"/film/2/amelie">>]>> }

\* the IMDB title pages: the ratingValue texts of each, already read as tenths
ImdbIds == {1, 2, 3, 4}

ImdbRatingValues(imdb_id) ==
    CASE imdb_id = 1 -> <<>>
      [] imdb_id = 2 -> <<80>>
      [] imdb_id = 3 -> <<81>>
      [] OTHER -> <<79>>

ImdbUrl(imdb_id) == "http://imdb.com/title/tt" \o ToString(imdb_id)

\* gs.translate(text, 'nl', 'en'): the English rendering of the text
Goslate(text) == "en:" \o text

----------------------------------------------------------------------------
(* Field extractors used by the detail worker. *)

get_movie_special(movie_page_doc) ==
    LET special_string == movie_page_doc.special IN
    IF special_string # <<>>
    THEN Some(Str(Split(JoinSplit(special_string), ":")[2]))
    ELSE None

\* re.match('^(.*)\s(\(.*\))$', title): the greedy first group, or None
TitleMatch(title) ==
    LET n == Len(title)
        ks == {k \in 0..(n - 3) :
                  title[k + 1] \in Whitespace /\ title[k + 2] = "(" /\ title[n] = ")"}
    IN  IF ks = {} THEN None
        ELSE Some(SubSeq(title, 1, CHOOSE k \in ks : \A j \in ks : j <= k))

get_movie_title(movie_page_doc) ==
    LET title == IF movie_page_doc.h1 # <<>> THEN movie_page_doc.h1
                 ELSE movie_page_doc.page_title
        title_match == TitleMatch(title)
    IN  IF title_match # None THEN Str(title_match[1]) ELSE Str(title)

----------------------------------------------------------------------------
(* queue.Queue *)

EmptyQueue == [items |-> <<>>, unfinished_tasks |-> 0]

\* put(item): appends and counts the item as unfinished
Put(q, item) == [items |-> Append(q.items, item), unfinished_tasks |-> q.unfinished_tasks + 1]

\* get(): blocks while the queue is empty, then takes the oldest item
CanGet(q) == q.items # <<>>
Got(q) == [q EXCEPT !.items = Tail(@)]

\* a worker that forgets to mark its item done
TaskDoneForgotten(q) == q

\* task_done()
TaskDone(q) == [q EXCEPT !.unfinished_tasks = @ - 1]

\* a join() that does not wait
JoinedAtOnce(q) == TRUE

\* join(): returns once every item put has been marked done
Joined(q) == q.unfinished_tasks = 0

----------------------------------------------------------------------------
(* The rating resolver, get_movie_imdb_rating, as the call of one caller:  *)
(* where it stands, what it has done, and how it ended.                     *)

NumCallers == 1

Callers == 1..NumCallers

NoCall ==
    [pc |-> "idle", kwargs |-> <<>>, query |-> "", searches |-> 0, fetches |-> 0,
     imdb_id |-> None, imdb_rating |-> None, exc |-> None]

\* lines 434-442: the dispatch on the keyword arguments
Dispatch(kwargs) ==
    IF "title" \in DOMAIN kwargs THEN "search"
    ELSE IF "id" \in DOMAIN kwargs THEN "fetch"
    ELSE "raise"

\* entering get_movie_imdb_rating with the keyword arguments kwargs
Enter(kwargs) ==
    LET to == Dispatch(kwargs) IN
    CASE to = "search" -> [NoCall EXCEPT !.pc = "search", !.kwargs = kwargs,
                                         !.query = kwargs.title]
      [] to = "fetch"  -> [NoCall EXCEPT !.pc = "fetch", !.kwargs = kwargs,
                                         !.imdb_id = Some(kwargs.id)]
      [] OTHER         -> [NoCall EXCEPT !.pc = "raised", !.kwargs = kwargs,
                                         !.exc = Some("RuntimeError")]

\* a resolver that goes on searching for as long as IMDB knows no such title
OnNotFoundRetry(searches) == "retry"

\* lines 435-438: a not-found first search is caught and the search repeated
\* with the translated title; the handler itself catches nothing
OnNotFound(searches) == IF searches = 1 THEN "retry" ELSE "raise"

\* nl_to_en(text): the translation, or the text itself on an HTTPError
nl_to_en(text) == {Goslate(text), text}

\* get_imdb_id_by_title(query): one request to IMDB's search and what it gives:
\* the id of the first title, no Titles section, a failed request, or a first
\* result whose link does not match
SearchOutcomes ==
    {[kind |-> "found", imdb_id |-> i] : i \in ImdbIds}
        \cup {[kind |-> k] : k \in {"notfound", "RuntimeError", "AttributeError"}}

Search(c, out) ==
    LET c1 == [c EXCEPT !.searches = @ + 1] IN
    CASE out.kind = "found" -> {[c1 EXCEPT !.pc = "fetch", !.imdb_id = Some(out.imdb_id)]}
      [] out.kind = "notfound" ->
            IF OnNotFound(c1.searches) = "retry"
            THEN {[c1 EXCEPT !.pc = "search", !.query = q] : q \in nl_to_en(c.kwargs.title)}
            ELSE {[c1 EXCEPT !.pc = "raised", !.exc = Some("IMDBMovieNotFoundError")]}
      [] OTHER -> {[c1 EXCEPT !.pc = "raised", !.exc = Some(out.kind)]}

\* lines 444-450: the request for the title page and the rating read from it
FetchOutcomes == {"ok", "RuntimeError"}

FetchRating(c, out) ==
    LET c1 == [c EXCEPT !.fetches = @ + 1] IN
    IF out = "ok"
    THEN LET imdb_rating == ImdbRatingValues(c.imdb_id[1]) IN
         [c1 EXCEPT !.pc = "returned",
                    !.imdb_rating = IF imdb_rating # <<>> THEN Some(imdb_rating[1]) ELSE None]
    ELSE [c1 EXCEPT !.pc = "raised", !.imdb_id = None, !.exc = Some(out)]

\* one step of a call that has not ended
Step(c) ==
    IF c.pc = "search" THEN UNION {Search(c, out) : out \in SearchOutcomes}
    ELSE {FetchRating(c, out) : out \in FetchOutcomes}

Ended(c) == c.pc \in {"returned", "raised"}

\* every way a call can end
RECURSIVE Runs(_)
Runs(c) == IF Ended(c) THEN {c} ELSE UNION {Runs(c1) : c1 \in Step(c)}

----------------------------------------------------------------------------
(* The listing workers: process_movies_list_page. *)

PageThreads == 1..NumPageThreads

PageUrl(page_num) == PATHE \o "/films?page=" \o ToString(page_num)

IdlePage == [pc |-> "get", url |-> None, movies_list |-> <<>>]

\* the filter without its check of the availability label
QualifiesAnyStatus(movie) == movie.hrefs[1] # SNEAK_PREVIEW

\* lines 464-471: does the poster's detail URL go to the detail queue
Qualifies(movie) ==
    /\ movie.labels[1] \in ALLOWED_STATUS
    /\ movie.hrefs[1] # SNEAK_PREVIEW

\* lines 455-457: take a page URL, or the sentinel and leave
PageGet(w) ==
    /\ page_threads[w].pc = "get"
    /\ CanGet(pages_queue)
    /\ pages_queue' = Got(pages_queue)
    /\ LET url == Head(pages_queue.items) IN
       page_threads' = [page_threads EXCEPT ![w] =
           IF Falsy(url) THEN [IdlePage EXCEPT !.pc = "exited"]
           ELSE [IdlePage EXCEPT !.pc = "fetch", !.url = url]]
    /\ UNCHANGED <<movies_queue, result_list, main, movie_threads, calls, date_vars, extract_vars>>

\* lines 458-462: fetch the listing page; a failed request ends the thread
PageFetch(w) ==
    /\ page_threads[w].pc = "fetch"
    /\ \/ \E movies_list \in Listings :
              page_threads' = [page_threads EXCEPT ![w].pc = "scan",
                                                   ![w].movies_list = movies_list]
       \/ page_threads' = [page_threads EXCEPT ![w] = [IdlePage EXCEPT !.pc = "crashed"]]
    /\ UNCHANGED <<pages_queue, movies_queue, result_list, main, movie_threads, calls, date_vars, extract_vars>>

\* lines 463-474: one poster of the page
PageScan(w) ==
    /\ page_threads[w].pc = "scan"
    /\ page_threads[w].movies_list # <<>>
    /\ LET movie == Head(page_threads[w].movies_list) IN
       IF movie.labels = <<>> \/ (movie.labels[1] \in ALLOWED_STATUS /\ movie.hrefs = <<>>)
       THEN \* IndexError: the thread dies
            /\ page_threads' = [page_threads EXCEPT ![w] = [IdlePage EXCEPT !.pc = "crashed"]]
            /\ UNCHANGED movies_queue
       ELSE /\ page_threads' = [page_threads EXCEPT ![w].movies_list = Tail(@)]
            /\ movies_queue' = IF Qualifies(movie)
                               THEN Put(movies_queue, Some(PATHE \o movie.hrefs[1]))
                               ELSE movies_queue
    /\ UNCHANGED <<pages_queue, result_list, main, movie_threads, calls, date_vars, extract_vars>>

\* line 475
PageTaskDone(w) ==
    /\ page_threads[w].pc = "scan"
    /\ page_threads[w].movies_list = <<>>
    /\ pages_queue' = TaskDone(pages_queue)
    /\ page_threads' = [page_threads EXCEPT ![w] = IdlePage]
    /\ UNCHANGED <<movies_queue, result_list, main, movie_threads, calls, date_vars, extract_vars>>

----------------------------------------------------------------------------
(* The detail workers: process_movie. *)

MovieThreads == 1..NumMovieThreads

IdleMovie == [pc |-> "get", url |-> None, special |-> None, imdb_id |-> None,
              imdb_rating |-> None]

\* re.match('^http://www.pathe.nl/film/(\d+)/(.*)$', url)
MovieUrlMatch(url) == \E href \in FilmHrefs : url = PATHE \o href

\* a worker that skips nothing
SkippedNever(special) == FALSE

\* line 491
Skipped(special) == special # None /\ special[1] \in SKIP_SPECIAL

\* the filter with >= for >
EmitsAtThreshold(imdb_rating) ==
    /\ imdb_rating # None
    /\ imdb_rating[1] # 0
    /\ imdb_rating[1] >= RATING_THRESHOLD

\* line 501: `if imdb_rating and imdb_rating > 8`
Emits(imdb_rating) ==
    /\ imdb_rating # None
    /\ imdb_rating[1] # 0
    /\ imdb_rating[1] > RATING_THRESHOLD

\* lines 497-500: which exceptions of the resolver the worker survives
Caught(exc) == exc = Some("IMDBMovieNotFoundError")

\* lines 480-484: take a detail URL, or the sentinel and leave
MovieGet(w) ==
    /\ movie_threads[w].pc = "get"
    /\ CanGet(movies_queue)
    /\ movies_queue' = Got(movies_queue)
    /\ LET url == Head(movies_queue.items) IN
       movie_threads' = [movie_threads EXCEPT ![w] =
           IF Falsy(url) THEN [IdleMovie EXCEPT !.pc = "exited"]
           ELSE IF ~MovieUrlMatch(url[1]) THEN [IdleMovie EXCEPT !.pc = "crashed"]
           ELSE [IdleMovie EXCEPT !.pc = "fetch", !.url = url]]
    /\ UNCHANGED <<pages_queue, result_list, main, page_threads, calls, date_vars, extract_vars>>

\* lines 485-495: fetch the detail page, read the special status and either
\* skip the movie or go on to its title; a failed request ends the thread
MovieFetch(w) ==
    /\ movie_threads[w].pc = "fetch"
    /\ \/ LET special == get_movie_special(MoviePage(movie_threads[w].url[1]))
          IN  movie_threads' = [movie_threads EXCEPT
                  ![w].pc = IF Skipped(special) THEN "skip" ELSE "imdb",
                  ![w].special = special]
       \/ movie_threads' = [movie_threads EXCEPT ![w] = [IdleMovie EXCEPT !.pc = "crashed"]]
    /\ UNCHANGED <<pages_queue, movies_queue, result_list, main, page_threads, calls, date_vars, extract_vars>>

\* lines 492-493
MovieSkip(w) ==
    /\ movie_threads[w].pc = "skip"
    /\ movies_queue' = TaskDone(movies_queue)
    /\ movie_threads' = [movie_threads EXCEPT ![w] = IdleMovie]
    /\ UNCHANGED <<pages_queue, result_list, main, page_threads, calls, date_vars, extract_vars>>

\* lines 497-500: what process_movie gets from a call that has ended: the
\* resolver's pair, (None, None) for a title IMDB does not know, or the
\* exception that ends the thread
Resolved(c) ==
    IF c.pc = "returned" THEN [imdb_id |-> c.imdb_id, imdb_rating |-> c.imdb_rating]
    ELSE IF Caught(c.exc) THEN [imdb_id |-> None, imdb_rating |-> None]
    ELSE [exc |-> c.exc]

\* lines 495-503: read the title, resolve its rating (the resolver's requests
\* touch nothing the threads share, so its call is one step here) and append
\* the record of a movie that rates high enough
MovieResolve(w) ==
    /\ movie_threads[w].pc = "imdb"
    /\ LET title == get_movie_title(MoviePage(movie_threads[w].url[1])) IN
       \E r \in {Resolved(c) : c \in Runs(Enter([title |-> title]))} :
           IF "exc" \in DOMAIN r
           THEN /\ movie_threads' = [movie_threads EXCEPT
                                        ![w] = [IdleMovie EXCEPT !.pc = "crashed"]]
                /\ UNCHANGED result_list
           ELSE /\ movie_threads' = [movie_threads EXCEPT ![w].pc = "done",
                                                          ![w].imdb_id = r.imdb_id,
                                                          ![w].imdb_rating = r.imdb_rating]
                /\ result_list' =
                       IF Emits(r.imdb_rating)
                       THEN Append(result_list,
                                   <<movie_threads[w].url[1], ImdbUrl(r.imdb_id[1])>>)
                       ELSE result_list
    /\ UNCHANGED <<pages_queue, movies_queue, main, page_threads, calls, date_vars, extract_vars>>

\* line 505
MovieTaskDone(w) ==
    /\ movie_threads[w].pc = "done"
    /\ movies_queue' = TaskDone(movies_queue)
    /\ movie_threads' = [movie_threads EXCEPT ![w] = IdleMovie]
    /\ UNCHANGED <<pages_queue, result_list, main, page_threads, calls, date_vars, extract_vars>>

----------------------------------------------------------------------------
(* The coordinator: __main__, from the seeding of the listing queue on. *)

Finished(thread) == thread.pc \in {"exited", "crashed"}

\* lines 546-548
MainSeed ==
    /\ main.pc = "seed"
    /\ pages_queue' = Put(pages_queue, Some(PageUrl(main.i)))
    /\ main' = IF main.i < NumPages THEN [main EXCEPT !.i = @ + 1]
               ELSE [pc |-> "join_pages", i |-> 0]
    /\ UNCHANGED <<movies_queue, result_list, page_threads, movie_threads, calls, date_vars, extract_vars>>

\* line 550
MainJoinPages ==
    /\ main.pc = "join_pages"
    /\ Joined(pages_queue)
    /\ main' = [pc |-> "stop_pages", i |-> 1]
    /\ UNCHANGED <<pages_queue, movies_queue, result_list, page_threads, movie_threads, calls, date_vars, extract_vars>>

\* lines 551-552
MainStopPages ==
    /\ main.pc = "stop_pages"
    /\ pages_queue' = Put(pages_queue, None)
    /\ main' = IF main.i < NumPageThreads THEN [main EXCEPT !.i = @ + 1]
               ELSE [pc |-> "join_page_threads", i |-> 0]
    /\ UNCHANGED <<movies_queue, result_list, page_threads, movie_threads, calls, date_vars, extract_vars>>

\* lines 553-554
MainJoinPageThreads ==
    /\ main.pc = "join_page_threads"
    /\ \A w \in PageThreads : Finished(page_threads[w])
    /\ main' = [pc |-> "join_movies", i |-> 0]
    /\ UNCHANGED <<pages_queue, movies_queue, result_list, page_threads, movie_threads, calls, date_vars, extract_vars>>

\* line 556
MainJoinMovies ==
    /\ main.pc = "join_movies"
    /\ Joined(movies_queue)
    /\ main' = [pc |-> "stop_movies", i |-> 1]
    /\ UNCHANGED <<pages_queue, movies_queue, result_list, page_threads, movie_threads, calls, date_vars, extract_vars>>

\* lines 557-558
MainStopMovies ==
    /\ main.pc = "stop_movies"
    /\ movies_queue' = Put(movies_queue, None)
    /\ main' = IF main.i < NumMovieThreads THEN [main EXCEPT !.i = @ + 1]
               ELSE [pc |-> "join_movie_threads", i |-> 0]
    /\ UNCHANGED <<pages_queue, result_list, page_threads, movie_threads, calls, date_vars, extract_vars>>

\* lines 559-570: the last joins, then the report is built from result_list
MainJoinMovieThreads ==
    /\ main.pc = "join_movie_threads"
    /\ \A w \in MovieThreads : Finished(movie_threads[w])
    /\ main' = [pc |-> "report", i |-> 0]
    /\ UNCHANGED <<pages_queue, movies_queue, result_list, page_threads, movie_threads, calls, date_vars, extract_vars>>

----------------------------------------------------------------------------
(* The pipeline. *)

Init ==
    /\ pages_queue = EmptyQueue
    /\ movies_queue = EmptyQueue
    /\ result_list = <<>>
    /\ main = [pc |-> "seed", i |-> 1]
    /\ page_threads = [w \in PageThreads |-> IdlePage]
    /\ movie_threads = [w \in MovieThreads |-> IdleMovie]
    /\ calls = [w \in Callers |-> NoCall]
    /\ TODAY = [year |-> 2024, month |-> 1, day |-> 10]
    /\ clock = "00:00:00"
    /\ day_name = <<>>
    /\ showtime_date = None
    /\ lh_movie_doc = EmptyDoc
    /\ extracted = None

PageThread(w) == PageGet(w) \/ PageFetch(w) \/ PageScan(w) \/ PageTaskDone(w)

MovieThread(w) ==
    \/ MovieGet(w) \/ MovieFetch(w) \/ MovieSkip(w)
    \/ MovieResolve(w) \/ MovieTaskDone(w)

Main ==
    \/ MainSeed \/ MainJoinPages \/ MainStopPages \/ MainJoinPageThreads
    \/ MainJoinMovies \/ MainStopMovies \/ MainJoinMovieThreads

Next ==
    \/ \E w \in PageThreads : PageThread(w)
    \/ \E w \in MovieThreads : MovieThread(w)
    \/ Main

Spec == Init /\ [][Next]_vars

----------------------------------------------------------------------------
(* The pipeline with the scheduling of its threads. *)

\* every started thread, and the main thread, is run by the interpreter as
\* long as it has a step to take; a request returns or fails
Scheduling ==
    /\ \A w \in PageThreads : WF_vars(PageThread(w))
    /\ \A w \in MovieThreads : WF_vars(MovieThread(w))
    /\ WF_vars(Main)

FairSpec == Spec /\ Scheduling

----------------------------------------------------------------------------
(* The rating resolver on its own: callers that call it with any keyword    *)
(* arguments, each call followed request by request.                        *)

Titles == {"Amelie", "Senna"}

KwargsGiven ==
    {<<>>} \cup {[title |-> t] : t \in Titles} \cup {[id |-> i] : i \in ImdbIds}
        \cup {[title |-> t, id |-> i] : t \in Titles, i \in ImdbIds}

\* a call of get_movie_imdb_rating (line 426)
Call(w) ==
    /\ calls[w].pc = "idle"
    /\ \E kwargs \in KwargsGiven : calls' = [calls EXCEPT ![w] = Enter(kwargs)]
    /\ UNCHANGED <<pipeline_vars, date_vars, extract_vars>>

\* one request of get_imdb_id_by_title (lines 406-423, called at 436 and 438)
DoSearch(w) ==
    /\ calls[w].pc = "search"
    /\ \E c \in Step(calls[w]) : calls' = [calls EXCEPT ![w] = c]
    /\ UNCHANGED <<pipeline_vars, date_vars, extract_vars>>

\* the request for the title page (lines 444-450)
DoFetch(w) ==
    /\ calls[w].pc = "fetch"
    /\ \E c \in Step(calls[w]) : calls' = [calls EXCEPT ![w] = c]
    /\ UNCHANGED <<pipeline_vars, date_vars, extract_vars>>

ResolverNext == \E w \in Callers : Call(w) \/ DoSearch(w) \/ DoFetch(w)

ResolverSpec == Init /\ [][ResolverNext]_vars

----------------------------------------------------------------------------
(* datetime: dates as [year, month, day], the proleptic Gregorian calendar. *)

Date(y, m, d) == [year |-> y, month |-> m, day |-> d]

IsLeap(y) == y % 4 = 0 /\ (y % 100 # 0 \/ y % 400 = 0)

DaysInMonth(y, m) ==
    IF m = 2 THEN (IF IsLeap(y) THEN 29 ELSE 28)
    ELSE IF m \in {4, 6, 9, 11} THEN 30 ELSE 31

RECURSIVE DaysBeforeMonth(_, _)
DaysBeforeMonth(y, m) ==
    IF m = 1 THEN 0 ELSE DaysBeforeMonth(y, m - 1) + DaysInMonth(y, m - 1)

\* date.toordinal(): 0001-01-01 is day 1
ToOrdinal(date) ==
    LET y == date.year - 1 IN
    y * 365 + (y \div 4) - (y \div 100) + (y \div 400)
        + DaysBeforeMonth(date.year, date.month) + date.day

\* date.weekday(): 0 is Monday, 6 is Sunday
Weekday(date) == (ToOrdinal(date) + 6) % 7

NextDay(date) ==
    IF date.day < DaysInMonth(date.year, date.month) THEN [date EXCEPT !.day = @ + 1]
    ELSE IF date.month < 12 THEN Date(date.year, date.month + 1, 1)
    ELSE Date(date.year + 1, 1, 1)

\* date + datetime.timedelta(days), days >= 0
RECURSIVE AddDays(_, _)
AddDays(date, days) == IF days = 0 THEN date ELSE AddDays(NextDay(date), days - 1)

\* a < b
Before(a, b) == ToOrdinal(a) < ToOrdinal(b)

ValidDate(y, m, d) == m \in 1..12 /\ d \in 1..DaysInMonth(y, m)

----------------------------------------------------------------------------
(* The date normalizer: next_weekday and normalize_date. *)

DAYS_OF_WEEK ==
    <<"maandag", "dinsdag", "woensdag", "donderdag", "vrijdag", "zaterdag", "zondag">>

MONTHS_SHORT ==
    <<"jan", "feb", "mrt", "apr", "mei", "jun", "jul", "aug", "sep", "okt", "nov", "dec">>

\* list.index(x), from 0; only asked for an x the list holds
Index(list, x) == (CHOOSE i \in 1..Len(list) : list[i] = x) - 1

Contains(list, x) == \E i \in 1..Len(list) : list[i] = x

\* two digits, as '%d' reads them and as \d{2} matches them
TwoDigits(n) == IF n < 10 THEN "0" \o ToString(n) ELSE ToString(n)

IsTwoDigits(token) == \E n \in 0..99 : TwoDigits(n) = token

IntOf(token) == CHOOSE n \in 0..99 : TwoDigits(n) = token

\* [a-z]{3}: the three-letter words the labels tried here end in
ThreeLetters == {MONTHS_SHORT[i] : i \in 1..12} \cup {"uur"}

\* a value returned, or the exception raised
Returned(v) == [value |-> v]
Raised(exc) == [exc |-> exc]

TOMORROW == AddDays(TODAY, 1)

\* next_weekday with < for <=
DaysAheadSameDay(weekday) ==
    LET days_ahead == weekday - Weekday(TODAY) IN
    IF days_ahead < 0 THEN days_ahead + 7 ELSE days_ahead

\* lines 61-63
DaysAhead(weekday) ==
    LET days_ahead == weekday - Weekday(TODAY) IN
    IF days_ahead <= 0 THEN days_ahead + 7 ELSE days_ahead

\* line 64
next_weekday(weekday) == AddDays(TODAY, DaysAhead(weekday))

\* re.match('^.*\s(\d{2})\s([a-z]{3})$', day_name): the two groups, or None
PreciseDate(label) ==
    LET n == Len(label) IN
    IF /\ n >= 4
       /\ label[n] \in ThreeLetters
       /\ label[n - 1] = " "
       /\ IsTwoDigits(label[n - 2])
       /\ label[n - 3] = " "
    THEN Some(<<label[n - 2], label[n]>>)
    ELSE None

\* datetime.datetime.strptime(date_str, '%d.%m.%Y'), date_str as its three fields
Strptime(date_str) ==
    LET d == IntOf(date_str[1])
        m == IntOf(date_str[2])
        y == date_str[3]
    IN  IF ValidDate(y, m, d) THEN Returned(Date(y, m, d)) ELSE Raised("ValueError")

\* `showtime_date < datetime.datetime.now()`, showtime_date a midnight
BeforeNow(date) == Before(date, TODAY) \/ (date = TODAY /\ clock # "00:00:00")

\* lines 285-310
normalize_date(label) ==
    LET name == Str(label) IN
    IF name = "vandaag" THEN Returned(TODAY)
    ELSE IF name = "morgen" THEN Returned(TOMORROW)
    ELSE IF Contains(DAYS_OF_WEEK, name)
    THEN Returned(next_weekday(Index(DAYS_OF_WEEK, name)))
    ELSE LET precise_date == PreciseDate(label) IN
         IF precise_date = None THEN Raised("PatheMovieParseError")
         ELSE LET match_groups == precise_date[1]
                  day == match_groups[1]
              IN  IF ~Contains(MONTHS_SHORT, match_groups[2]) THEN Raised("ValueError")
                  ELSE LET month == TwoDigits(Index(MONTHS_SHORT, match_groups[2]) + 1)
                           year == TODAY.year
                           date_str == <<day, month, year>>
                           first == Strptime(date_str)
                       IN  IF "exc" \in DOMAIN first THEN first
                           ELSE IF BeforeNow(first.value)
                           THEN \* year + 1 is computed and date_str is parsed again as it was
                                LET year_1 == year + 1 IN Strptime(date_str)
                           ELSE first

\* the current dates tried
BaseDates ==
    {Date(2024, 1, 10), Date(2024, 6, 10), Date(2024, 5, 21), Date(2024, 12, 26),
     Date(2023, 2, 23)}

Todays == {AddDays(base, k) : base \in BaseDates, k \in 0..DaySpan}

\* the labels tried
DaysTried == {1, 10, 27, 29, 31}

DayNames ==
    {<<"vandaag">>, <<"morgen">>, <<"overmorgen">>, <<"27", " ", "mei">>,
     <<"vanaf", " ", "20", " ", "uur">>}
        \cup {<<DAYS_OF_WEEK[i]>> : i \in 1..7}
        \cup {<<DAYS_OF_WEEK[i], " ", TwoDigits(d), " ", MONTHS_SHORT[m]>> :
                 i \in {3}, d \in DaysTried, m \in 1..12}

DateInit ==
    /\ pages_queue = EmptyQueue
    /\ movies_queue = EmptyQueue
    /\ result_list = <<>>
    /\ main = [pc |-> "seed", i |-> 1]
    /\ page_threads = [w \in PageThreads |-> IdlePage]
    /\ movie_threads = [w \in MovieThreads |-> IdleMovie]
    /\ calls = [w \in Callers |-> NoCall]
    /\ TODAY \in Todays
    /\ clock \in {"00:00:00", "20:15:00"}
    /\ day_name \in DayNames
    /\ showtime_date = None
    /\ lh_movie_doc = EmptyDoc
    /\ extracted = None

\* a call of normalize_date (line 354)
Normalize ==
    /\ showtime_date = None
    /\ showtime_date' = Some(normalize_date(day_name))
    /\ UNCHANGED <<pipeline_vars, calls, TODAY, clock, day_name, extract_vars>>

DateSpec == DateInit /\ [][Normalize]_vars

----------------------------------------------------------------------------
(* The other field extractors.  Each reads one element of the detail page;  *)
(* those that translate give the set of what they may return.              *)

MONTHS_FULL ==
    <<"januari", "februari", "maart", "april", "mei", "juni", "juli", "augustus",
      "september", "oktober", "november", "december">>

\* [a-z]+: the lowercase words of the texts tried here
LowercaseWords == {MONTHS_FULL[i] : i \in 1..12} \cup {"zomer", "minuten", "onbekend"}

\* \d{1,2}
IsDayDigits(token) == \E n \in 0..99 : ToString(n) = token \/ TwoDigits(n) = token

DayOf(token) == CHOOSE n \in 0..99 : ToString(n) = token \/ TwoDigits(n) = token

\* \d{4}: the years of the texts tried here
IsYearDigits(token) == \E y \in 1990..2030 : ToString(y) = token

YearOf(token) == CHOOSE y \in 1990..2030 : ToString(y) = token

\* \d+: the numbers of the texts tried here
IsDigits(token) == \E n \in 0..300 : ToString(n) = token

\* re.match('^(\d{1,2})\s([a-z]+)\s(\d{4})', date_string): the groups, or None
ReleaseDateMatch(date_string) ==
    IF /\ Len(date_string) >= 5
       /\ IsDayDigits(date_string[1])
       /\ date_string[2] \in Whitespace
       /\ date_string[3] \in LowercaseWords
       /\ date_string[4] \in Whitespace
       /\ IsYearDigits(date_string[5])
    THEN Some(<<date_string[1], date_string[3], date_string[5]>>)
    ELSE None

\* lines 107-121
get_movie_release_date(movie_page_doc) ==
    LET date_string == movie_page_doc.release_date
        date_string_match == ReleaseDateMatch(date_string)
    IN  IF date_string_match = None
        THEN Raised("AttributeError")     \* None has no groups()
        ELSE LET groups == date_string_match[1] IN
             IF ~Contains(MONTHS_FULL, groups[2]) THEN Raised("ValueError")
             ELSE LET day == DayOf(groups[1])
                      month == Index(MONTHS_FULL, groups[2]) + 1
                      year == YearOf(groups[3])
                  IN  IF ValidDate(year, month, day) THEN Returned(Date(year, month, day))
                      ELSE Raised("ValueError")

\* [Str(part) for part in parts]
Strs(parts) == [i \in 1..Len(parts) |-> Str(parts[i])]

\* [nl_to_en(text) for text in texts]: every list the translations may give
RECURSIVE TranslateAll(_)
TranslateAll(texts) ==
    IF texts = <<>> THEN {<<>>}
    ELSE {<<first>> \o rest : first \in nl_to_en(Head(texts)), rest \in TranslateAll(Tail(texts))}

\* the text after the first ':' of a text without whitespace, split at ','
AfterColon(text) ==
    LET parts == Split(JoinSplit(text), ":") IN
    IF Len(parts) < 2 THEN Raised("IndexError")
    ELSE Returned(Strs(Split(parts[2], ",")))

\* lines 124-138
get_movie_genres(movie_page_doc) ==
    LET genres_string == movie_page_doc.genres IN
    IF genres_string # <<>>
    THEN LET genres == AfterColon(genres_string) IN
         IF "exc" \in DOMAIN genres THEN {genres}
         ELSE {Returned(translated) : translated \in TranslateAll(genres.value)}
    ELSE {Returned(None)}

\* a text with each run of whitespace taken as one
RECURSIVE Squeeze(_)
Squeeze(text) ==
    IF Len(text) < 2 THEN text
    ELSE IF text[1] \in Whitespace /\ text[2] \in Whitespace THEN Squeeze(Tail(text))
    ELSE <<Head(text)>> \o Squeeze(Tail(text))

\* lines 141-155: re.match('^Duur:\s+(\d+)\s+minuten$', duration_string)
get_movie_duration(movie_page_doc) ==
    LET duration_string == Squeeze(Strip(movie_page_doc.duration)) IN
    IF /\ Len(duration_string) = 6
       /\ duration_string[1] = "Duur"
       /\ duration_string[2] = ":"
       /\ duration_string[3] \in Whitespace
       /\ IsDigits(duration_string[4])
       /\ duration_string[5] \in Whitespace
       /\ duration_string[6] = "minuten"
    THEN Some(duration_string[4])
    ELSE None

\* s.split(': '): the parts between each ':' that a space follows
RECURSIVE SplitColonSpace(_)
SplitColonSpace(text) ==
    LET at == {k \in 1..(Len(text) - 1) : text[k] = ":" /\ text[k + 1] = " "} IN
    IF at = {} THEN <<text>>
    ELSE LET i == CHOOSE k \in at : \A j \in at : k <= j
         IN  <<SubSeq(text, 1, i - 1)>> \o SplitColonSpace(SubSeq(text, i + 2, Len(text)))

\* lines 158-171
get_movie_language(movie_page_doc) ==
    LET language_string == movie_page_doc.language IN
    IF language_string # <<>>
    THEN LET parts == SplitColonSpace(Strip(language_string)) IN
         IF Len(parts) < 2 THEN {Raised("IndexError")}
         ELSE {Returned(Some(language)) : language \in nl_to_en(Str(parts[2]))}
    ELSE {Returned(None)}

KIJKWIJZER_ICONS == "/themes/main/gfx/icons/kijkwijzer/"

\* lines 188-201: one icon path: nothing for a path the pattern does not
\* match, the restriction's name, or the error of a name of no known shape
Restriction(restriction) ==
    IF ~(/\ Len(restriction) >= 2
         /\ restriction[1] = KIJKWIJZER_ICONS
         /\ restriction[Len(restriction)] = ".png")
    THEN Returned(<<>>)
    ELSE LET name == SubSeq(restriction, 2, Len(restriction) - 1) IN
         IF Str(name) = "rating-onbekend-z" THEN Returned(<<"unknown">>)
         ELSE IF Str(name) = "rating-nvt-z" THEN Returned(<<"n/a">>)
         ELSE IF Contains(name, "kijkwijzer-")
         THEN Returned(<<Str(Split(name, "kijkwijzer-")[2])>>)
         ELSE Raised("PatheMovieParseError")

\* lines 174-202
RECURSIVE get_movie_restrictions_of(_)
get_movie_restrictions_of(restrictions_list) ==
    IF restrictions_list = <<>> THEN Returned(<<>>)
    ELSE LET first == Restriction(Head(restrictions_list)) IN
         IF "exc" \in DOMAIN first THEN first
         ELSE LET rest == get_movie_restrictions_of(Tail(restrictions_list)) IN
              IF "exc" \in DOMAIN rest THEN rest
              ELSE Returned(first.value \o rest.value)

get_movie_restrictions(movie_page_doc) ==
    get_movie_restrictions_of(movie_page_doc.kijkwijzer)

\* lines 205-218
get_movie_technologies(movie_page_doc) ==
    LET technologies_string == movie_page_doc.technologies IN
    IF technologies_string # <<>> THEN AfterColon(technologies_string)
    ELSE Returned(None)

\* float(s), in tenths, of a number with at most one decimal
Float(text) ==
    IF Len(text) = 1 /\ IsDigits(text[1])
    THEN Returned(Some(10 * (CHOOSE n \in 0..300 : ToString(n) = text[1])))
    ELSE IF Len(text) = 3 /\ IsDigits(text[1]) /\ text[2] = "."
              /\ \E f \in 0..9 : ToString(f) = text[3]
    THEN Returned(Some(10 * (CHOOSE n \in 0..300 : ToString(n) = text[1])
                           + (CHOOSE f \in 0..9 : ToString(f) = text[3])))
    ELSE Raised("ValueError")

\* lines 221-231
get_movie_rating(movie_page_doc) ==
    LET rating_string == movie_page_doc.rating IN
    IF rating_string # <<>>
    THEN Float([i \in 1..Len(rating_string) |->
                   IF rating_string[i] = "," THEN "." ELSE rating_string[i]])
    ELSE Returned(None)

\* lines 234-250; a slider entry is the texts of its span and whether it is
\* marked Regisseur
get_movie_directors_cast(movie_page_doc) ==
    LET directors_cast_items == movie_page_doc.slider
        directors == SelectSeq(directors_cast_items, LAMBDA person : person.regisseur)
        cast == SelectSeq(directors_cast_items, LAMBDA person : ~person.regisseur)
    IN  IF \E i \in 1..Len(directors_cast_items) : directors_cast_items[i].names = <<>>
        THEN Raised("IndexError")
        ELSE Returned(<<[i \in 1..Len(directors) |-> directors[i].names[1]],
                        [i \in 1..Len(cast) |-> cast[i].names[1]]>>)

----------------------------------------------------------------------------
(* The extractors on their own: one extractor called on one detail page. *)

\* the detail pages tried: each element absent, as the site writes it, or,
\* for some, in a shape the extractor does not know
MovieDocs ==
    [special : {<<>>, <<"Special", ":", " ", "Pathe", "Opera">>},
     h1 : {<<>>, <<"Carmen">>},
     page_title : {<<>>, <<"Amelie", " ", "(", "French", ")">>},
     release_date : {<<>>, <<"27", " ", "mei", " ", "2015">>, <<"zomer", " ", "2015">>},
     genres : {<<>>, <<"Genre", ":", "\n", "Drama", ",", " ", "Komedie">>},
     duration : {<<>>, <<"Duur", ":", " ", " ", "95", " ", "minuten", "\n">>,
                 <<"Duur", ":", " ", "onbekend">>},
     language : {<<>>, <<"Taalversie", ":", " ", "Engels">>},
     kijkwijzer : {<<>>,
                   << <<KIJKWIJZER_ICONS, "kijkwijzer-", "12", ".png">>,
                      <<KIJKWIJZER_ICONS, "rating-onbekend-z", ".png">> >>,
                   << <<KIJKWIJZER_ICONS, "geweld", ".png">> >>},
     technologies : {<<>>, <<"Te", " ", "zien", " ", "in", ":", " ", "3D", ",", " ", "IMAX">>},
     rating : {<<>>, <<"8", ",", "5">>},
     slider : {<<>>,
               <<[names |-> <<"Bizet">>, regisseur |-> TRUE],
                 [names |-> <<"Callas">>, regisseur |-> FALSE]>>,
               <<[names |-> <<>>, regisseur |-> FALSE]>>}]

ExtractInit ==
    /\ pages_queue = EmptyQueue
    /\ movies_queue = EmptyQueue
    /\ result_list = <<>>
    /\ main = [pc |-> "seed", i |-> 1]
    /\ page_threads = [w \in PageThreads |-> IdlePage]
    /\ movie_threads = [w \in MovieThreads |-> IdleMovie]
    /\ calls = [w \in Callers |-> NoCall]
    /\ TODAY = Date(2024, 1, 10)
    /\ clock = "00:00:00"
    /\ day_name = <<>>
    /\ showtime_date = None
    /\ lh_movie_doc \in MovieDocs
    /\ extracted = None

\* the extractor named is called on the page and gives one of the results
Extract(name, results) ==
    /\ extracted = None
    /\ \E result \in results : extracted' = Some([extractor |-> name, result |-> result])
    /\ UNCHANGED <<pipeline_vars, calls, date_vars, lh_movie_doc>>

ExtractSpecial == Extract("get_movie_special", {Returned(get_movie_special(lh_movie_doc))})
ExtractTitle == Extract("get_movie_title", {Returned(get_movie_title(lh_movie_doc))})
ExtractReleaseDate == Extract("get_movie_release_date", {get_movie_release_date(lh_movie_doc)})
ExtractGenres == Extract("get_movie_genres", get_movie_genres(lh_movie_doc))
ExtractDuration == Extract("get_movie_duration", {Returned(get_movie_duration(lh_movie_doc))})
ExtractLanguage == Extract("get_movie_language", get_movie_language(lh_movie_doc))
ExtractRestrictions == Extract("get_movie_restrictions", {get_movie_restrictions(lh_movie_doc)})
ExtractTechnologies == Extract("get_movie_technologies", {get_movie_technologies(lh_movie_doc)})
ExtractRating == Extract("get_movie_rating", {get_movie_rating(lh_movie_doc)})
ExtractDirectorsCast ==
    Extract("get_movie_directors_cast", {get_movie_directors_cast(lh_movie_doc)})

ExtractNext ==
    \/ ExtractSpecial \/ ExtractTitle \/ ExtractReleaseDate \/ ExtractGenres
    \/ ExtractDuration \/ ExtractLanguage \/ ExtractRestrictions
    \/ ExtractTechnologies \/ ExtractRating \/ ExtractDirectorsCast

ExtractSpec == ExtractInit /\ [][ExtractNext]_vars

----------------------------------------------------------------------------
(* Properties of the pipeline. *)

\* the termination sentinels the coordinator has put on the detail queue
SentinelsPut ==
    IF main.pc = "stop_movies" THEN main.i - 1
    ELSE IF main.pc \in {"join_movie_threads", "report"} THEN NumMovieThreads
    ELSE 0

\* C1: once the coordinator has put the first detail-worker sentinel, every
\* listing worker has ended (none can push any more), no detail URL waits on
\* the detail queue or is held by a detail worker, and every detail URL ever
\* put has been marked done (the unfinished count is that of the sentinels).
C1_NoDetailUrlLost ==
    SentinelsPut > 0 =>
        /\ \A w \in PageThreads : page_threads[w].pc \in {"exited", "crashed"}
        /\ \A k \in 1..Len(movies_queue.items) : movies_queue.items[k] = None
        /\ \A w \in MovieThreads : movie_threads[w].pc \in {"get", "exited"}
        /\ movies_queue.unfinished_tasks = SentinelsPut

\* a sentinel is on its way and a detail URL was pushed, taken and processed
C1_Witness == SentinelsPut > 0 /\ result_list # <<>>

\* C2: a failure while a worker handles one item never ends the worker: no
\* listing worker and no detail worker is ever terminated by an exception.
C2_FailureSkipsOnlyTheItem ==
    /\ \A w \in PageThreads : page_threads[w].pc # "crashed"
    /\ \A w \in MovieThreads : movie_threads[w].pc # "crashed"

\* what C2 promises and the code does not give: the coordinator waits on the
\* detail queue for an item whose worker is gone
C2_Stuck ==
    /\ main.pc = "join_movies"
    /\ movies_queue.unfinished_tasks > 0
    /\ \A w \in MovieThreads : movie_threads[w].pc = "crashed"

\* C3: every record of the result list pairs a detail URL with the IMDB page of
\* a title whose rating exists and is above 8.0, and a detail worker that ends
\* the resolution of a movie appends its record exactly when the rating it got
\* exists and is above 8.0 (not at 8.0, not without a rating, not for a title
\* IMDB does not know); nothing else changes the result list.
C3_Records ==
    \A k \in 1..Len(result_list) :
        /\ MovieUrlMatch(result_list[k][1])
        /\ \E imdb_id \in ImdbIds :
               /\ result_list[k][2] = ImdbUrl(imdb_id)
               /\ ImdbRatingValues(imdb_id) # <<>>
               /\ ImdbRatingValues(imdb_id)[1] > 80

C3_Step ==
    /\ \A w \in MovieThreads :
           (movie_threads[w].pc = "imdb" /\ movie_threads'[w].pc = "done") =>
               LET got == movie_threads'[w] IN
               IF got.imdb_rating # None /\ got.imdb_rating[1] > 80
               THEN result_list' = Append(result_list, <<got.url[1], ImdbUrl(got.imdb_id[1])>>)
               ELSE result_list' = result_list
    /\ result_list' # result_list =>
           \E w \in MovieThreads : movie_threads[w].pc = "imdb" /\ movie_threads'[w].pc = "done"

C3_OnlyAboveThreshold == []C3_Records /\ [][C3_Step]_vars

\* one movie rated 8.1 has its record, another rated 8.0 was resolved without one
C3_Witness ==
    /\ result_list = << <<PATHE \o "/film/2/amelie", ImdbUrl(3)>> >>
    /\ \E w \in MovieThreads :
           movie_threads[w].pc = "done" /\ movie_threads[w].imdb_rating = Some(80)

\* C4: no record of the result list is of a detail page whose special status
\* is in the skip-set; a detail worker that read such a status stands right
\* before its task_done, having resolved nothing, and its next step marks the
\* item done, appends nothing and returns to the queue.
C4_Skipped ==
    /\ \A k \in 1..Len(result_list) :
           LET special == get_movie_special(MoviePage(result_list[k][1])) IN
           special = None \/ special[1] \notin SKIP_SPECIAL
    /\ \A w \in MovieThreads :
           LET t == movie_threads[w] IN
           (t.special # None /\ t.special[1] \in SKIP_SPECIAL) =>
               t.pc = "skip" /\ t.imdb_id = None /\ t.imdb_rating = None

C4_Step ==
    \A w \in MovieThreads :
        (movie_threads[w].pc = "skip" /\ movie_threads'[w] # movie_threads[w]) =>
            /\ movie_threads'[w].pc = "get"
            /\ movies_queue'.unfinished_tasks = movies_queue.unfinished_tasks - 1
            /\ result_list' = result_list

C4_SkipSetNeverEmits == []C4_Skipped /\ [][C4_Step]_vars

\* a detail worker has read the special status PatheOpera
C4_Witness ==
    \E w \in MovieThreads :
        movie_threads[w].pc = "skip" /\ movie_threads[w].special = Some("PatheOpera")

\* C5: a listing worker that examines a poster puts its detail URL on the
\* detail queue exactly when the poster's label is 'Tijden en tickets' or
\* 'Verwacht' and its link is not /film/845/sneak-preview; nothing but that
\* puts a detail URL; the deny-listed URL is never on the detail queue.
C5_Step ==
    /\ \A w \in PageThreads :
           LET t == page_threads[w] IN
           (t.pc = "scan" /\ t.movies_list # <<>> /\ page_threads'[w].pc = "scan"
                /\ page_threads'[w] # t) =>
               LET movie == Head(t.movies_list) IN
               IF movie.labels[1] \in {"Tijden en tickets", "Verwacht"}
                    /\ movie.hrefs[1] # "/film/845/sneak-preview"
               THEN movies_queue' = Put(movies_queue, Some(PATHE \o movie.hrefs[1]))
               ELSE movies_queue' = movies_queue
    /\ (Len(movies_queue'.items) > Len(movies_queue.items)
            /\ movies_queue'.items[Len(movies_queue'.items)] # None) =>
           \E w \in PageThreads :
               page_threads[w].pc = "scan" /\ page_threads'[w] # page_threads[w]

C5_NoDenied ==
    /\ \A k \in 1..Len(movies_queue.items) :
           movies_queue.items[k] # Some(PATHE \o "/film/845/sneak-preview")
    /\ \A w \in MovieThreads :
           movie_threads[w].url # Some(PATHE \o "/film/845/sneak-preview")

C5_OnlyAllowedPushed == []C5_NoDenied /\ [][C5_Step]_vars

\* of a page with a 'Verwacht' poster and an 'Uitverkocht' one, the first is on
\* the detail queue and the second is about to be examined
C5_Witness ==
    /\ movies_queue.items = <<Some(PATHE \o "/film/2/amelie")>>
    /\ \E w \in PageThreads :
           /\ page_threads[w].pc = "scan"
           /\ page_threads[w].movies_list = <<Poster("Uitverkocht", "/film/1/carmen")>>

----------------------------------------------------------------------------
(* Properties of the rating resolver. *)

\* C6: a call by title makes at most two searches: the first with the title
\* given, the second, made only after a not-found first, with what nl_to_en
\* gives for the title; a search that follows a search is the last one; a call
\* ends not-found only after two searches and no request for a title page, and
\* the detail worker takes that end as no id and no rating, which emits no
\* record.
C6_Searches ==
    \A w \in Callers :
        LET c == calls[w] IN
        /\ c.searches <= 2
        /\ c.pc = "search" => c.searches <= 1
        /\ (c.pc = "search" /\ c.searches = 0) => c.query = c.kwargs.title
        /\ (c.pc = "search" /\ c.searches = 1) =>
               c.query \in {"en:" \o c.kwargs.title, c.kwargs.title}
        /\ c.exc = Some("IMDBMovieNotFoundError") =>
               /\ c.pc = "raised" /\ c.searches = 2 /\ c.fetches = 0
               /\ Resolved(c) = [imdb_id |-> None, imdb_rating |-> None]
               /\ ~Emits(Resolved(c).imdb_rating)

C6_Step ==
    \A w \in Callers :
        (calls[w].pc = "search" /\ calls[w].searches = 1 /\ calls'[w] # calls[w]) =>
            calls'[w].pc \in {"fetch", "raised"} /\ calls'[w].searches = 2

C7_ExactlyOneOfTitleAndId ==
    \A w \in Callers :
        LET c == calls[w] IN
        (c.pc # "idle" /\ DOMAIN c.kwargs \in {{}, {"title", "id"}}) =>
            /\ c.pc = "raised" /\ c.exc = Some("RuntimeError")
            /\ c.searches = 0 /\ c.fetches = 0

\* the half of C7 the code keeps: a call with neither ends in a RuntimeError
C7_NeitherRaises ==
    \A w \in Callers :
        LET c == calls[w] IN
        (c.pc # "idle" /\ DOMAIN c.kwargs = {}) =>
            /\ c.pc = "raised" /\ c.exc = Some("RuntimeError")
            /\ c.searches = 0 /\ c.fetches = 0

----------------------------------------------------------------------------
(* Properties of the date normalizer. *)

\* the day label is the weekday name with index i (0 is maandag)
IsWeekdayName(i) == day_name = <<DAYS_OF_WEEK[i + 1]>>

\* C8: 'vandaag' gives the current date, 'morgen' the day after it, and a Dutch
\* weekday name W a date 1 to 7 days after the current date whose weekday is W,
\* at the offset (W - current weekday + 7) mod 7 with 0 taken as 7.
C8_RelativeLabels ==
    showtime_date # None =>
        LET got == showtime_date[1] IN
        /\ day_name = <<"vandaag">> => got = Returned(TODAY)
        /\ day_name = <<"morgen">> =>
               /\ "value" \in DOMAIN got
               /\ ValidDate(got.value.year, got.value.month, got.value.day)
               /\ ToOrdinal(got.value) = ToOrdinal(TODAY) + 1
        /\ \A i \in 0..6 :
               IsWeekdayName(i) =>
                   /\ "value" \in DOMAIN got
                   /\ ValidDate(got.value.year, got.value.month, got.value.day)
                   /\ LET ahead == ToOrdinal(got.value) - ToOrdinal(TODAY)
                          offset == (i - Weekday(TODAY) + 7) % 7
                      IN  /\ ahead \in 1..7
                          /\ Weekday(got.value) = i
                          /\ ahead = IF offset = 0 THEN 7 ELSE offset

\* on a Wednesday, 'woensdag' gave the Wednesday a week later
C8_Witness ==
    /\ showtime_date # None
    /\ TODAY = Date(2024, 1, 10)
    /\ day_name = <<"woensdag">>
    /\ showtime_date[1] = Returned(Date(2024, 1, 17))

\* the label's day and month, read as the claim reads them
LabelDay == IntOf(day_name[Len(day_name) - 2])
LabelMonth == Index(MONTHS_SHORT, day_name[Len(day_name)]) + 1

\* the label is '<weekday> <day> <month>' and names a day of the current year
IsPreciseLabel ==
    /\ Len(day_name) = 5
    /\ Contains(DAYS_OF_WEEK, day_name[1])
    /\ Contains(MONTHS_SHORT, day_name[5])
    /\ ValidDate(TODAY.year, LabelMonth, LabelDay)

\* C9: a '<weekday> <day> <month>' label gives that day and month in the
\* current year when that date is not before the current date, and in the next
\* year when it is; the date given is never before the current date.
C9_YearRollover ==
    (showtime_date # None /\ IsPreciseLabel) =>
        LET got == showtime_date[1]
            this_year == Date(TODAY.year, LabelMonth, LabelDay)
        IN  /\ "value" \in DOMAIN got
            /\ ~Before(got.value, TODAY)
            /\ got.value = IF Before(this_year, TODAY)
                           THEN Date(TODAY.year + 1, LabelMonth, LabelDay)
                           ELSE this_year

\* what the code does keep: the label's day and month in the current year
C9_CurrentYear ==
    (showtime_date # None /\ IsPreciseLabel) =>
        showtime_date[1] = Returned(Date(TODAY.year, LabelMonth, LabelDay))

----------------------------------------------------------------------------
(* Properties of the field extractors. *)

\* the element the extractor reads is not on the page
ElementAbsent(name) ==
    CASE name = "get_movie_special" -> lh_movie_doc.special = <<>>
      [] name = "get_movie_title" -> lh_movie_doc.h1 = <<>> /\ lh_movie_doc.page_title = <<>>
      [] name = "get_movie_release_date" -> lh_movie_doc.release_date = <<>>
      [] name = "get_movie_genres" -> lh_movie_doc.genres = <<>>
      [] name = "get_movie_duration" -> lh_movie_doc.duration = <<>>
      [] name = "get_movie_language" -> lh_movie_doc.language = <<>>
      [] name = "get_movie_restrictions" -> lh_movie_doc.kijkwijzer = <<>>
      [] name = "get_movie_technologies" -> lh_movie_doc.technologies = <<>>
      [] name = "get_movie_rating" -> lh_movie_doc.rating = <<>>
      [] OTHER -> lh_movie_doc.slider = <<>>

\* None or the empty value of the extractor's kind
EmptyResult(name) ==
    CASE name = "get_movie_title" -> Returned("")
      [] name = "get_movie_directors_cast" -> Returned(<< <<>>, <<>> >>)
      [] OTHER -> Returned(<<>>)

\* C10: an extractor called on a page that lacks its element returns None or
\* an empty value; none raises.
C10_NoFailureOnAbsence ==
    (extracted # None /\ ElementAbsent(extracted[1].extractor)) =>
        /\ "value" \in DOMAIN extracted[1].result
        /\ extracted[1].result = EmptyResult(extracted[1].extractor)

\* what the code keeps: every extractor but get_movie_release_date does so
C10_AllButReleaseDate ==
    (extracted # None /\ ElementAbsent(extracted[1].extractor)
        /\ extracted[1].extractor # "get_movie_release_date") =>
        extracted[1].result = EmptyResult(extracted[1].extractor)

----------------------------------------------------------------------------
(* Properties of the shutdown. *)

\* the termination sentinels the coordinator has put on the listing queue
PageSentinelsPut ==
    IF main.pc \in {"seed", "join_pages"} THEN 0
    ELSE IF main.pc = "stop_pages" THEN main.i - 1
    ELSE NumPageThreads

\* the sentinels of a queue are put only once its work is done, and each is
\* on the queue or was taken by one worker that left with it
C11_Protocol ==
    /\ \A w \in PageThreads :
           page_threads[w].pc = "exited" => PageSentinelsPut > 0
    /\ PageSentinelsPut > 0 =>
           /\ \A w \in PageThreads : page_threads[w].pc \in {"get", "exited"}
           /\ \A k \in 1..Len(pages_queue.items) : pages_queue.items[k] = None
           /\ pages_queue.unfinished_tasks = PageSentinelsPut
           /\ Len(pages_queue.items)
                  + Cardinality({w \in PageThreads : page_threads[w].pc = "exited"})
              = PageSentinelsPut
    /\ \A w \in MovieThreads :
           movie_threads[w].pc = "exited" => SentinelsPut > 0
    /\ SentinelsPut > 0 =>
           /\ \A w \in PageThreads : page_threads[w].pc = "exited"
           /\ \A w \in MovieThreads : movie_threads[w].pc \in {"get", "exited"}
           /\ \A k \in 1..Len(movies_queue.items) : movies_queue.items[k] = None
           /\ movies_queue.unfinished_tasks = SentinelsPut
           /\ Len(movies_queue.items)
                  + Cardinality({w \in MovieThreads : movie_threads[w].pc = "exited"})
              = SentinelsPut

\* the coordinator is at the hand-off of the result list, every worker has
\* left, and no sentinel is left over
C11_HandedOff ==
    /\ main.pc = "report"
    /\ \A w \in PageThreads : page_threads[w].pc = "exited"
    /\ \A w \in MovieThreads : movie_threads[w].pc = "exited"
    /\ pages_queue = [items |-> <<>>, unfinished_tasks |-> NumPageThreads]
    /\ movies_queue = [items |-> <<>>, unfinished_tasks |-> NumMovieThreads]

\* no request and no extraction has failed: no thread was ended by an exception
C11_NoFailure ==
    /\ \A w \in PageThreads : page_threads[w].pc # "crashed"
    /\ \A w \in MovieThreads : movie_threads[w].pc # "crashed"

\* C11: the coordinator puts one sentinel per listing worker only after every
\* listing page is marked done, then one per detail worker only after the
\* detail queue has drained, and a worker leaves only with a sentinel, one
\* each; in a run where no request and no extraction fails, every worker takes
\* its sentinel and leaves, none stays blocked on an empty queue, and the
\* coordinator reaches the hand-off of the result list.
C11_ShutdownTerminates ==
    /\ []C11_Protocol
    /\ ([]C11_NoFailure => <>C11_HandedOff)

\* the hand-off is reached after detail URLs were pushed and processed
C11_Witness == C11_HandedOff /\ result_list # <<>>

====
